---- MODULE Spec2Model ----
(***************************************************************************)
(* Model of the recursive MultiSet of src/src/multiset.cpp.                *)
(*                                                                         *)
(* An Element is std::variant<std::string, std::shared_ptr<MultiSet>>.     *)
(* Shared MultiSet objects live in `heap`; a shared_ptr is an index into   *)
(* it, so reference identity (the pointer) and content (the referenced     *)
(* object's map) are distinct things, as they are in the program.  The     *)
(* unordered_map elements_ is a function from its stored keys to their     *)
(* int counts; lookups go through VariantHash and VariantEqual, and the    *)
(* map comparison of operator== goes through the bucket of the key's hash  *)
(* and the operator== of the stored pair, as std::unordered_map does.      *)
(***************************************************************************)
EXTENDS Integers, FiniteSets, Sequences, TLC

VARIABLES heap, ms1, ms2, call, ret, io

vars == <<heap, ms1, ms2, call, ret, io>>

\* Bound of the model: the shared objects alive plus the element occurrences
\* held by them and by the two local multisets.
MaxTotal == 7

Labels == {"a", "b"}

---------------------------------------------------------------------------
\* Elements: the two alternatives of the variant.

Label(s) == [tag |-> "Label", s |-> s, p |-> 0]

Nested(p) == [tag |-> "Nested", s |-> "", p |-> p]

\* Every Element a caller can form over heap h.
Elements(h) == {Label(s) : s \in Labels} \cup {Nested(p) : p \in 1..Len(h)}

\* A default-constructed MultiSet: an empty elements_.
EmptyMap == [k \in {} |-> 0]

\* The past-the-end iterator of a map.
End == [tag |-> "End", s |-> "", p |-> 0]

---------------------------------------------------------------------------
\* Hashing (multiset.cpp 14-60).

RECURSIVE BitXor(_, _)
BitXor(a, b) ==
    IF a = 0 THEN b
    ELSE IF b = 0 THEN a
    ELSE (((a % 2) + (b % 2)) % 2) + 2 * BitXor(a \div 2, b \div 2)

\* std::hash<std::string>: a fixed value per string content.
StringHash(s) == CASE s = "a" -> 5 [] s = "b" -> 9 [] OTHER -> 0

\* std::hash<int>: the value itself.
IntHash(c) == c

RECURSIVE MultiSetHashLoop(_, _, _)
RECURSIVE VariantHash(_, _)

\* hash_value ^= element_hash ^ (count_hash << 1), over every entry.
MultiSetHashLoop(h, m, keys) ==
    IF keys = {} THEN 0
    ELSE LET k == CHOOSE x \in keys : TRUE
         IN BitXor(BitXor(VariantHash(h, k), 2 * IntHash(m[k])),
                   MultiSetHashLoop(h, m, keys \ {k}))

VariantHash(h, v) ==
    IF v.tag = "Label" THEN StringHash(v.s)
    ELSE MultiSetHashLoop(h, h[v.p], DOMAIN h[v.p])

MultiSetHash(h, m) == MultiSetHashLoop(h, m, DOMAIN m)

---------------------------------------------------------------------------
\* Equality (multiset.cpp 72-97, 191-198).

\* operator== of the variant itself: same alternative, then the strings by
\* content or the shared_ptrs by address.
ElementOpEq(l, r) ==
    /\ l.tag = r.tag
    /\ IF l.tag = "Nested" THEN l.p = r.p ELSE l.s = r.s

RECURSIVE MapEq(_, _, _)
RECURSIVE VariantEqual(_, _, _)

\* operator== of std::unordered_map: equal sizes, and every entry of x has
\* in y, in the bucket of its key's hash, an entry equal to it as a pair.
MapEq(h, x, y) ==
    /\ Cardinality(DOMAIN x) = Cardinality(DOMAIN y)
    /\ \A k \in DOMAIN x :
         \E k2 \in DOMAIN y :
            /\ VariantHash(h, k2) = VariantHash(h, k)
            /\ ElementOpEq(k2, k)
            /\ y[k2] = x[k]

VariantEqual(h, l, r) ==
    IF l.tag = r.tag
    THEN IF l.tag = "Nested"
         THEN MapEq(h, h[l.p], h[r.p])
         ELSE l.s = r.s
    ELSE FALSE

\* MultiSet::operator== and operator!=.
MultiSetEq(h, x, y) == MapEq(h, x, y)

MultiSetNeq(h, x, y) == ~MultiSetEq(h, x, y)

---------------------------------------------------------------------------
\* The unordered_map primitives the methods use.

\* elements_.find(e): the stored key with e's hash that VariantEqual accepts.
Find(h, m, e) ==
    LET hit == {k \in DOMAIN m :
                  VariantHash(h, k) = VariantHash(h, e) /\ VariantEqual(h, k, e)}
    IN IF hit = {} THEN End ELSE CHOOSE k \in hit : TRUE

\* m[e] = v: assigns through the stored key when there is one, else inserts e.
MapAssign(h, m, e, v) ==
    LET it == Find(h, m, e)
    IN IF it # End THEN [m EXCEPT ![it] = v]
       ELSE [k \in DOMAIN m \cup {e} |-> IF k = e THEN v ELSE m[k]]

\* m.erase(it)
MapErase(m, it) == [k \in DOMAIN m \ {it} |-> m[k]]

\* m.at(e), with 0 standing for "no such key".
Count(h, m, e) == LET it == Find(h, m, e) IN IF it = End THEN 0 ELSE m[it]

---------------------------------------------------------------------------
\* Core methods (multiset.cpp 105-182).

\* AddElement without the increment: the count is set to 1 every time.
AddElementOverwrite(h, m, e) == MapAssign(h, m, e, 1)

AddElement(h, m, e) ==
    LET it == Find(h, m, e)
    IN IF it # End THEN [m EXCEPT ![it] = @ + 1]
       ELSE MapAssign(h, m, e, 1)

RemoveThrows(h, m, e) == Find(h, m, e) = End

\* RemoveElement decrementing through operator[] with no find before it.
RemoveElementNoFind(h, m, e) ==
    LET c == Count(h, m, e) - 1
    IN IF c = 0 THEN MapErase(m, Find(h, m, e)) ELSE MapAssign(h, m, e, c)

\* RemoveElement that never erases the entry.
RemoveElementNoErase(h, m, e) ==
    LET it == Find(h, m, e)
    IN IF it = End THEN m ELSE [m EXCEPT ![it] = @ - 1]

RemoveElement(h, m, e) ==
    LET it == Find(h, m, e)
    IN IF it = End THEN m
       ELSE IF m[it] - 1 = 0 THEN MapErase(m, it)
       ELSE [m EXCEPT ![it] = @ - 1]

IsContains(h, m, e) == Find(h, m, e) # End

IsEmpty(m) == DOMAIN m = {}

RECURSIVE SizeLoop(_, _)
SizeLoop(m, keys) ==
    IF keys = {} THEN 0
    ELSE LET k == CHOOSE x \in keys : TRUE
         IN m[k] + SizeLoop(m, keys \ {k})

Size(m) == SizeLoop(m, DOMAIN m)


RECURSIVE BuildBooleanLoop(_, _, _, _)
BuildBooleanLoop(h, booleanSet, m, keys) ==
    IF keys = {} THEN booleanSet
    ELSE LET element == CHOOSE x \in keys : TRUE
         IN BuildBooleanLoop(h, MapAssign(h, booleanSet, element, 1), m,
                             keys \ {element})

\* BuildBoolean copying each count where it should store 1.
BuildBooleanCopy(h, m) == m

BuildBoolean(h, m) == BuildBooleanLoop(h, EmptyMap, m, DOMAIN m)

\* MultiSet::SetElements and GetElements (multiset.cpp 510-526).
SetElements(m, elements) == elements

GetElements(m) == m

---------------------------------------------------------------------------
\* Algebraic operators (multiset.cpp 205-367).

Max(a, b) == IF a >= b THEN a ELSE b

Min(a, b) == IF a <= b THEN a ELSE b

RECURSIVE PlusLoop(_, _, _, _)
PlusLoop(h, result, other, keys) ==
    IF keys = {} THEN result
    ELSE LET element == CHOOSE x \in keys : TRUE
             count_other == other[element]
             next == IF Find(h, result, element) # End
                     THEN MapAssign(h, result, element,
                                    Max(Count(h, result, element), count_other))
                     ELSE MapAssign(h, result, element, count_other)
         IN PlusLoop(h, next, other, keys \ {element})

\* operator+: result starts as a copy of this.
Plus(h, this, other) == PlusLoop(h, this, other, DOMAIN other)

RECURSIVE PlusAssignLoop(_, _, _, _, _)
\* The loop of operator+= writes into elements_ while it reads other: when
\* other is *this (alias), el.second is read from the map being written.
PlusAssignLoop(h, elements_, other, keys, alias) ==
    IF keys = {} THEN elements_
    ELSE LET element == CHOOSE x \in keys : TRUE
             count_other == IF alias THEN elements_[element] ELSE other[element]
             next == IF Find(h, elements_, element) # End
                     THEN MapAssign(h, elements_, element,
                                    Max(Count(h, elements_, element), count_other))
                     ELSE MapAssign(h, elements_, element, count_other)
         IN PlusAssignLoop(h, next, other, keys \ {element}, alias)

\* operator+= adding the counts where it should keep the larger one.
PlusAssignSum(h, this, other, alias) ==
    [k \in DOMAIN PlusAssignLoop(h, this, other, DOMAIN other, alias) |->
        Count(h, this, k) + Count(h, other, k)]

PlusAssign(h, this, other, alias) ==
    PlusAssignLoop(h, this, other, DOMAIN other, alias)

RECURSIVE TimesLoop(_, _, _, _, _)
TimesLoop(h, result, this, other, keys) ==
    IF keys = {} THEN result
    ELSE LET element == CHOOSE x \in keys : TRUE
             count_this == this[element]
             it == Find(h, other, element)
             next == IF it # End
                     THEN MapAssign(h, result, element, Min(count_this, other[it]))
                     ELSE result
         IN TimesLoop(h, next, this, other, keys \ {element})

Times(h, this, other) == TimesLoop(h, EmptyMap, this, other, DOMAIN this)

\* operator*= builds a local map the same way and moves it into elements_.
TimesAssign(h, this, other) == TimesLoop(h, EmptyMap, this, other, DOMAIN this)

RECURSIVE MinusLoopThis(_, _, _, _, _)
MinusLoopThis(h, result, this, other, keys) ==
    IF keys = {} THEN result
    ELSE LET thisElement == CHOOSE x \in keys : TRUE
             thisCount == this[thisElement]
             it == Find(h, other, thisElement)
             next == IF it # End
                     THEN IF thisCount > other[it]
                          THEN MapAssign(h, result, thisElement, thisCount - other[it])
                          ELSE result
                     ELSE MapAssign(h, result, thisElement, thisCount)
         IN MinusLoopThis(h, next, this, other, keys \ {thisElement})

RECURSIVE MinusLoopOther(_, _, _, _, _)
MinusLoopOther(h, result, this, other, keys) ==
    IF keys = {} THEN result
    ELSE LET otherElement == CHOOSE x \in keys : TRUE
             next == IF Find(h, this, otherElement) = End
                     THEN MapAssign(h, result, otherElement, other[otherElement])
                     ELSE result
         IN MinusLoopOther(h, next, this, other, keys \ {otherElement})

\* operator- without its second loop: the conventional difference.
MinusThisOnly(h, this, other) ==
    MinusLoopThis(h, EmptyMap, this, other, DOMAIN this)

Minus(h, this, other) ==
    MinusLoopOther(h, MinusLoopThis(h, EmptyMap, this, other, DOMAIN this),
                   this, other, DOMAIN other)

\* operator-= builds a local map the same way and moves it into elements_.
MinusAssign(h, this, other) ==
    MinusLoopOther(h, MinusLoopThis(h, EmptyMap, this, other, DOMAIN this),
                   this, other, DOMAIN other)

---------------------------------------------------------------------------
\* What the bound MaxTotal counts.

RECURSIVE WeightLoop(_, _)
WeightLoop(m, keys) ==
    IF keys = {} THEN 0
    ELSE LET k == CHOOSE x \in keys : TRUE
         IN (IF m[k] > 0 THEN m[k] ELSE 1 - m[k]) + WeightLoop(m, keys \ {k})

Weight(m) == WeightLoop(m, DOMAIN m)

RECURSIVE HeapWeight(_)
HeapWeight(h) ==
    IF h = <<>> THEN 0
    ELSE 1 + Weight(h[Len(h)]) + HeapWeight(SubSeq(h, 1, Len(h) - 1))

Fits(h, a, b) == HeapWeight(h) + Weight(a) + Weight(b) <= MaxTotal

\* The maps a caller may hand to SetElements without going through a MultiSet.
RawMaps(h) ==
    {EmptyMap} \cup {[k \in {e} |-> c] : e \in Elements(h), c \in {-1, 0, 1}}

---------------------------------------------------------------------------
\* The text codec (multiset.cpp 381-500).  A text is a sequence of characters,
\* each a string of length one.  A stream is the text, the number of
\* characters already extracted, and the failbit and eofbit of its state.

\* Bound of the model: the length of the texts a caller types into a stream.
MaxLen == 6

\* The characters of typed texts: the three the grammar names, a white space
\* and one more.
Chars == {"{", "}", ",", " ", "a"}

Texts == UNION {[1..n -> Chars] : n \in 0..MaxLen}

\* std::char_traits<char>::eof(), the value peek() gives for "no character".
Eof == "eof"

\* The characters of a label; the labels of Labels are one character long.
LabelText(s) == IF s = "" THEN <<>> ELSE <<s>>

IsSpace(c) == c = " "

NewStream(text) == [text |-> text, pos |-> 0, fail |-> FALSE, eof |-> FALSE]

Good(is) == ~is.fail /\ ~is.eof

AtEnd(is) == is.pos = Len(is.text)

RECURSIVE SkipSpaces(_)
SkipSpaces(is) ==
    IF ~AtEnd(is) /\ IsSpace(is.text[is.pos + 1])
    THEN SkipSpaces([is EXCEPT !.pos = @ + 1])
    ELSE is

\* is >> std::ws: nothing but failbit on a stream that is not good; else the
\* white space is skipped, and eofbit is set when that reaches the end.
Ws(is) ==
    IF ~Good(is) THEN [is EXCEPT !.fail = TRUE]
    ELSE LET s2 == SkipSpaces(is)
         IN IF AtEnd(s2) THEN [s2 EXCEPT !.eof = TRUE] ELSE s2

\* is.peek(): the value, and the stream after the call.
PeekChar(is) ==
    IF Good(is) /\ ~AtEnd(is) THEN is.text[is.pos + 1] ELSE Eof

PeekState(is) ==
    IF ~Good(is) THEN [is EXCEPT !.fail = TRUE]
    ELSE IF AtEnd(is) THEN [is EXCEPT !.eof = TRUE]
    ELSE is

\* is.get(c) where peek() has just given a character.
Get(is) == [is EXCEPT !.pos = @ + 1]

\* is >> ch: white space skipped, then one character extracted.  When none
\* is extracted failbit is set and ch is not written.
ReadOk(is) == Good(is) /\ ~AtEnd(SkipSpaces(is))

ReadValue(is) == LET s2 == SkipSpaces(is) IN s2.text[s2.pos + 1]

ReadCh(is) ==
    IF ~Good(is) THEN [is EXCEPT !.fail = TRUE]
    ELSE LET s2 == SkipSpaces(is)
         IN IF AtEnd(s2) THEN [s2 EXCEPT !.fail = TRUE, !.eof = TRUE]
            ELSE Get(s2)

RECURSIVE LabelLoop(_, _)
\* while (peek() != ',' && peek() != '}' && peek() != eof) str_element += get:
\* the stream and the string when the loop is left.  Only at the end of the
\* text do the three calls of peek() change the stream.
LabelLoop(is, str_element) ==
    LET c == PeekChar(is)
    IN IF c = "," THEN [is |-> PeekState(is), str |-> str_element]
       ELSE IF c = "}"
       THEN [is |-> PeekState(PeekState(is)), str |-> str_element]
       ELSE IF c = Eof
       THEN [is |-> PeekState(PeekState(PeekState(is))), str |-> str_element]
       ELSE LabelLoop(Get(is), str_element \o c)

\* elements[element]++
Increment(h, elements, element) ==
    LET it == Find(h, elements, element)
    IN IF it # End THEN [elements EXCEPT ![it] = @ + 1]
       ELSE [k \in DOMAIN elements \cup {element} |->
                IF k = element THEN 1 ELSE elements[k]]

RECURSIVE Repeat(_, _, _)
\* One element written n times, ", " before each but the very first.
Repeat(text, n, first) ==
    IF n <= 0 THEN <<>>
    ELSE (IF first THEN <<>> ELSE <<",", " ">>) \o text \o Repeat(text, n - 1, FALSE)

RECURSIVE WriteLoop(_, _, _, _)
RECURSIVE WriteTexts(_, _)

\* operator<< of the variant: the label, or the nested MultiSet written.
ElementTexts(h, v) ==
    IF v.tag = "Label" THEN {LabelText(v.s)} ELSE WriteTexts(h, h[v.p])

\* The texts the for loop of operator<< can write for the entries of keys,
\* the unordered_map giving them in some order.
WriteLoop(h, m, keys, first) ==
    IF keys = {} THEN {<<>>}
    ELSE UNION {
           {Repeat(t, m[k], first) \o rest :
               t \in ElementTexts(h, k),
               rest \in WriteLoop(h, m, keys \ {k}, first /\ m[k] <= 0)} :
           k \in keys}

\* operator<<(os, multiset): every text it can write.
WriteTexts(h, m) == {<<"{">> \o t \o <<"}">> : t \in WriteLoop(h, m, DOMAIN m, TRUE)}

\* Reading: the activation records of operator>>, innermost last.  Each
\* holds its place in the code (pc), its local ch and elements, the object it
\* reads into (target: 0 is ms1, else a shared object) and the shared object
\* it made for a nested read (nested).  io holds the stream, the records,
\* the number of passes of the while loops so far, whether the reader has
\* met a character where the grammar wanted another one, whether it has
\* stored into ms1, and where the text came from.
Uninit == "uninit"

NewFrame(target) ==
    [pc |-> "open", ch |-> Uninit, elements |-> EmptyMap,
     target |-> target, nested |-> 0]

IoIdle ==
    [status |-> "idle", is |-> NewStream(<<>>), stack |-> <<>>, iters |-> 0,
     malformed |-> FALSE, stored |-> FALSE, source |-> "none"]

---------------------------------------------------------------------------
\* The program: a caller with two local MultiSets, ms1 and ms2, and the
\* shared MultiSets of heap.  The caller builds shared objects from ms2 and
\* calls the public operations on ms1.  call holds the operation that has
\* just returned, its Element argument and ms1 and ms2 as they were before
\* the call (pre, pre2);
\* ret holds what the call returned, or that it threw.  The caller looks at
\* them and drops them (Return) before its next call.

Idle == [op |-> "idle", e |-> End, pre |-> EmptyMap, pre2 |-> EmptyMap]

NoVal == [threw |-> FALSE, val |-> EmptyMap, b |-> FALSE]

Init ==
    /\ heap = <<>>
    /\ ms1 = EmptyMap
    /\ ms2 = EmptyMap
    /\ call = Idle
    /\ ret = NoVal
    /\ io = IoIdle

\* std::make_shared<MultiSet>(ms2): a new shared object, a copy of ms2.
MakeShared ==
    /\ call = Idle
    /\ heap' = Append(heap, ms2)
    /\ Fits(heap', ms1, ms2)
    /\ UNCHANGED <<ms1, ms2, call, ret, io>>

\* ms2.AddElement(e)
Add2(e) ==
    /\ call = Idle
    /\ ms2' = AddElement(heap, ms2, e)
    /\ Fits(heap, ms1, ms2')
    /\ UNCHANGED <<heap, ms1, call, ret, io>>

\* ms2.RemoveElement(e), the exception caught by the caller.
Remove2(e) ==
    /\ call = Idle
    /\ ms2' = RemoveElement(heap, ms2, e)
    /\ UNCHANGED <<heap, ms1, call, ret, io>>

\* ms1.AddElement(e)
Add1(e) ==
    /\ call = Idle
    /\ ms1' = AddElement(heap, ms1, e)
    /\ Fits(heap, ms1', ms2)
    /\ call' = [op |-> "AddElement", e |-> e, pre |-> ms1, pre2 |-> ms2]
    /\ ret' = NoVal
    /\ UNCHANGED <<heap, ms2, io>>

\* ms1.RemoveElement(e)
Remove1(e) ==
    /\ call = Idle
    /\ ms1' = RemoveElement(heap, ms1, e)
    /\ Fits(heap, ms1', ms2)
    /\ call' = [op |-> "RemoveElement", e |-> e, pre |-> ms1, pre2 |-> ms2]
    /\ ret' = [threw |-> RemoveThrows(heap, ms1, e), val |-> EmptyMap, b |-> FALSE]
    /\ UNCHANGED <<heap, ms2, io>>

\* ms1.SetElements(ms2.GetElements())
SetFrom2 ==
    /\ call = Idle
    /\ ms1' = SetElements(ms1, GetElements(ms2))
    /\ Fits(heap, ms1', ms2)
    /\ call' = [op |-> "SetElements", e |-> End, pre |-> ms1, pre2 |-> ms2]
    /\ ret' = NoVal
    /\ UNCHANGED <<heap, ms2, io>>

\* ms1.SetElements(raw) with a map the caller built itself.
SetRaw(raw) ==
    /\ call = Idle
    /\ ms1' = SetElements(ms1, raw)
    /\ Fits(heap, ms1', ms2)
    /\ call' = [op |-> "SetElements", e |-> End, pre |-> ms1, pre2 |-> ms2]
    /\ ret' = NoVal
    /\ UNCHANGED <<heap, ms2, io>>

\* ms1 + ms2, ms1 * ms2, ms1 - ms2, ms1.BuildBoolean(): the operands stay.
DoPlus ==
    /\ call = Idle
    /\ call' = [op |-> "+", e |-> End, pre |-> ms1, pre2 |-> ms2]
    /\ ret' = [threw |-> FALSE, val |-> Plus(heap, ms1, ms2), b |-> FALSE]
    /\ UNCHANGED <<heap, ms1, ms2, io>>

DoTimes ==
    /\ call = Idle
    /\ call' = [op |-> "*", e |-> End, pre |-> ms1, pre2 |-> ms2]
    /\ ret' = [threw |-> FALSE, val |-> Times(heap, ms1, ms2), b |-> FALSE]
    /\ UNCHANGED <<heap, ms1, ms2, io>>

DoMinus ==
    /\ call = Idle
    /\ call' = [op |-> "-", e |-> End, pre |-> ms1, pre2 |-> ms2]
    /\ ret' = [threw |-> FALSE, val |-> Minus(heap, ms1, ms2), b |-> FALSE]
    /\ UNCHANGED <<heap, ms1, ms2, io>>

DoBuildBoolean ==
    /\ call = Idle
    /\ call' = [op |-> "BuildBoolean", e |-> End, pre |-> ms1, pre2 |-> ms2]
    /\ ret' = [threw |-> FALSE, val |-> BuildBoolean(heap, ms1), b |-> FALSE]
    /\ UNCHANGED <<heap, ms1, ms2, io>>

\* ms1 == ms2
DoEquals ==
    /\ call = Idle
    /\ call' = [op |-> "==", e |-> End, pre |-> ms1, pre2 |-> ms2]
    /\ ret' = [threw |-> FALSE, val |-> EmptyMap, b |-> MultiSetEq(heap, ms1, ms2)]
    /\ UNCHANGED <<heap, ms1, ms2, io>>

\* ms1 += other, ms1 *= other, ms1 -= other, other being ms2 or ms1 itself.
DoPlusAssign(self) ==
    /\ call = Idle
    /\ ms1' = PlusAssign(heap, ms1, IF self THEN ms1 ELSE ms2, self)
    /\ Fits(heap, ms1', ms2)
    /\ call' = [op |-> IF self THEN "+=self" ELSE "+=", e |-> End,
                pre |-> ms1, pre2 |-> ms2]
    /\ ret' = NoVal
    /\ UNCHANGED <<heap, ms2, io>>

DoTimesAssign(self) ==
    /\ call = Idle
    /\ ms1' = TimesAssign(heap, ms1, IF self THEN ms1 ELSE ms2)
    /\ Fits(heap, ms1', ms2)
    /\ call' = [op |-> IF self THEN "*=self" ELSE "*=", e |-> End,
                pre |-> ms1, pre2 |-> ms2]
    /\ ret' = NoVal
    /\ UNCHANGED <<heap, ms2, io>>

DoMinusAssign(self) ==
    /\ call = Idle
    /\ ms1' = MinusAssign(heap, ms1, IF self THEN ms1 ELSE ms2)
    /\ Fits(heap, ms1', ms2)
    /\ call' = [op |-> IF self THEN "-=self" ELSE "-=", e |-> End,
                pre |-> ms1, pre2 |-> ms2]
    /\ ret' = NoVal
    /\ UNCHANGED <<heap, ms2, io>>

\* The caller is done with what the last call returned.
Return ==
    /\ call # Idle
    /\ call' = Idle
    /\ ret' = NoVal
    /\ UNCHANGED <<heap, ms1, ms2, io>>

Next ==
    \/ MakeShared
    \/ \E e \in Elements(heap) : Add2(e)
    \/ \E e \in Elements(heap) : Remove2(e)
    \/ \E e \in Elements(heap) : Add1(e)
    \/ \E e \in Elements(heap) : Remove1(e)
    \/ SetFrom2
    \/ DoPlus
    \/ DoTimes
    \/ DoMinus
    \/ DoBuildBoolean
    \/ DoEquals
    \/ \E self \in BOOLEAN : DoPlusAssign(self)
    \/ \E self \in BOOLEAN : DoTimesAssign(self)
    \/ \E self \in BOOLEAN : DoMinusAssign(self)
    \/ Return

Spec == Init /\ [][Next]_vars

\* The same program with a caller that also hands SetElements maps of its own.
NextBulk == Next \/ \E raw \in RawMaps(heap) : SetRaw(raw)

SpecBulk == Init /\ [][NextBulk]_vars

---------------------------------------------------------------------------
\* Mutation through a shared reference.  std::shared_ptr<MultiSet> points to
\* a non-const MultiSet (multiset.hpp 58), so a caller that kept the pointer
\* make_shared gave it can call AddElement on the shared object.

\* The objects the Nested keys of m point to.
Refs(m) == {k.p : k \in {x \in DOMAIN m : x.tag = "Nested"}}

RECURSIVE ReachFrom(_, _, _)
\* The objects reached from the objects of S in at most n more steps.
ReachFrom(h, S, n) ==
    IF n = 0 THEN S
    ELSE ReachFrom(h, S \cup UNION {Refs(h[q]) : q \in S}, n - 1)

\* No shared object is reached from itself through Nested keys.  The
\* recursions of MultiSetHash and VariantEqual end exactly on such heaps.
Acyclic(h) == \A p \in 1..Len(h) : p \notin ReachFrom(h, Refs(h[p]), Len(h))

\* The objects that are a key of some map.  Changing one of them changes the
\* hash of a stored key, which std::unordered_map does not allow; the caller
\* modelled here changes only objects no map holds.
Held == Refs(ms1) \cup Refs(ms2) \cup UNION {Refs(heap[q]) : q \in 1..Len(heap)}

\* p->AddElement(e) on the shared object p; e may be p itself.
AddShared(p, e) ==
    /\ call = Idle
    /\ Acyclic(heap)
    /\ p \notin Held
    /\ heap' = [heap EXCEPT ![p] = AddElement(heap, heap[p], e)]
    /\ Fits(heap', ms1, ms2)
    /\ UNCHANGED <<ms1, ms2, call, ret, io>>

\* A caller that builds multisets with AddElement, SetElements and
\* make_shared and adds to the shared objects it made.  Once an object holds
\* itself every hash of it recurses without end, so no further call on the
\* multisets is modelled from such a state.
NextShared ==
    \/ Acyclic(heap) /\ MakeShared
    \/ \E e \in Elements(heap) : Acyclic(heap) /\ Add2(e)
    \/ \E e \in Elements(heap) : Acyclic(heap) /\ Remove2(e)
    \/ \E e \in Elements(heap) : Acyclic(heap) /\ Add1(e)
    \/ Acyclic(heap) /\ SetFrom2
    \/ Acyclic(heap) /\ Return
    \/ \E p \in 1..Len(heap) : \E e \in Elements(heap) : AddShared(p, e)

SpecShared == Init /\ [][NextShared]_vars

---------------------------------------------------------------------------
\* operator>>(is, ms1), one step per stretch of its code.

Top == io.stack[Len(io.stack)]

SetTop(f) == [io.stack EXCEPT ![Len(io.stack)] = f]

Pop == SubSeq(io.stack, 1, Len(io.stack) - 1)

AfterPop == IF Len(io.stack) = 1 THEN "returned" ELSE "running"

\* The passes of the while loops a text of this length is given before the
\* model stops following the reader.
StepBound(text) == Len(text) + 1

\* std::istringstream is(text); is >> ms1;
Type(text) ==
    /\ io = IoIdle
    /\ call' = [op |-> ">>", e |-> End, pre |-> ms1, pre2 |-> ms2]
    /\ ret' = NoVal
    /\ io' = [status |-> "running", is |-> NewStream(text),
              stack |-> <<NewFrame(0)>>, iters |-> 0, malformed |-> FALSE,
              stored |-> FALSE, source |-> "typed"]
    /\ UNCHANGED <<heap, ms1, ms2>>

\* std::stringstream ss; ss << ms2; ss >> ms1;
WriteThenRead(text) ==
    /\ io = IoIdle
    /\ call = Idle
    /\ call' = [op |-> ">>", e |-> End, pre |-> ms1, pre2 |-> ms2]
    /\ ret' = NoVal
    /\ io' = [status |-> "running", is |-> NewStream(text),
              stack |-> <<NewFrame(0)>>, iters |-> 0, malformed |-> FALSE,
              stored |-> FALSE, source |-> "written"]
    /\ UNCHANGED <<heap, ms1, ms2>>

\* char ch; is >> ch; if (ch != '{') { setstate(failbit); return is; }
\* When nothing is extracted ch is read uninitialized: any value.
ReadOpen ==
    /\ io.status = "running"
    /\ Top.pc = "open"
    /\ LET ok == ReadOk(io.is)
           s1 == ReadCh(io.is)
       IN \E ch \in IF ok THEN {ReadValue(io.is)} ELSE Chars :
            io' = IF ch # "{"
                  THEN [io EXCEPT !.is = [s1 EXCEPT !.fail = TRUE],
                                  !.stack = Pop,
                                  !.status = AfterPop,
                                  !.malformed = @ \/ ok]
                  ELSE [io EXCEPT !.is = s1,
                                  !.stack = SetTop([Top EXCEPT !.pc = "elem",
                                                               !.ch = ch])]
    /\ UNCHANGED <<heap, ms1, ms2, call, ret>>

\* The head of the loop body: a nested read is entered when peek() is '{',
\* else a label is read and counted.
ReadElement ==
    /\ io.status = "running"
    /\ Top.pc = "elem"
    /\ io.iters <= StepBound(io.is.text)
    /\ LET c == PeekChar(io.is)
           s1 == PeekState(io.is)
           nested_multiset == Len(heap) + 1
           r == LabelLoop(Ws(s1), "")
       IN IF c = "{"
          THEN /\ heap' = Append(heap, EmptyMap)
               /\ io' = [io EXCEPT
                           !.is = s1,
                           !.iters = @ + 1,
                           !.stack = Append(
                               SetTop([Top EXCEPT !.pc = "nested",
                                                  !.nested = nested_multiset]),
                               NewFrame(nested_multiset))]
          ELSE /\ heap' = heap
               /\ io' = [io EXCEPT
                           !.is = r.is,
                           !.iters = @ + 1,
                           !.stack = SetTop(
                               [Top EXCEPT
                                  !.pc = "sep",
                                  !.elements = Increment(heap, @, Label(r.str))])]
    /\ UNCHANGED <<ms1, ms2, call, ret>>

\* The nested read has returned: element = nested_multiset; elements[element]++
ReadNested ==
    /\ io.status = "running"
    /\ Top.pc = "nested"
    /\ io' = [io EXCEPT
                !.stack = SetTop(
                    [Top EXCEPT
                       !.pc = "sep",
                       !.elements = Increment(heap, @, Nested(Top.nested))])]
    /\ UNCHANGED <<heap, ms1, ms2, call, ret>>

\* is >> std::ws; is >> ch; then '}' stores the elements and returns, ','
\* goes round the loop, anything else sets failbit and returns.  When
\* nothing is extracted ch keeps the value it had.
ReadSeparator ==
    /\ io.status = "running"
    /\ Top.pc = "sep"
    /\ LET s1 == Ws(io.is)
           ok == ReadOk(s1)
           s2 == ReadCh(s1)
           ch == IF ok THEN ReadValue(s1) ELSE Top.ch
       IN IF ch = "}"
          THEN /\ io' = [io EXCEPT !.is = s2, !.stack = Pop, !.status = AfterPop,
                                   !.stored = (Top.target = 0)]
               /\ IF Top.target = 0
                  THEN /\ ms1' = SetElements(ms1, Top.elements)
                       /\ heap' = heap
                  ELSE /\ heap' = [heap EXCEPT
                                     ![Top.target] = SetElements(@, Top.elements)]
                       /\ ms1' = ms1
          ELSE IF ch # ","
          THEN /\ io' = [io EXCEPT !.is = [s2 EXCEPT !.fail = TRUE],
                                   !.stack = Pop,
                                   !.status = AfterPop,
                                   !.malformed = @ \/ ok]
               /\ UNCHANGED <<heap, ms1>>
          ELSE /\ io' = [io EXCEPT !.is = s2,
                                   !.stack = SetTop([Top EXCEPT !.pc = "elem",
                                                                !.ch = ch])]
               /\ UNCHANGED <<heap, ms1>>
    /\ UNCHANGED <<ms2, call, ret>>

\* A caller that reads typed texts into ms1, empty or holding one label.
NextRead ==
    \/ \E e \in Elements(heap) : Add1(e)
    \/ io = IoIdle /\ \E text \in Texts : Type(text)
    \/ ReadOpen
    \/ ReadElement
    \/ ReadNested
    \/ ReadSeparator

SpecRead == Init /\ [][NextRead]_vars

\* A caller that builds ms2, writes it and reads the text back into ms1.
NextRoundTrip ==
    \/ MakeShared
    \/ \E e \in Elements(heap) : Add2(e)
    \/ io = IoIdle /\ \E text \in WriteTexts(heap, ms2) : WriteThenRead(text)
    \/ ReadOpen
    \/ ReadElement
    \/ ReadNested
    \/ ReadSeparator

SpecRoundTrip == Init /\ [][NextRoundTrip]_vars

---------------------------------------------------------------------------
\* Content of a MultiSet, references followed: what "structurally equal"
\* compares.  Each element's content is paired with its total count.

RECURSIVE SumCounts(_, _)
SumCounts(m, keys) ==
    IF keys = {} THEN 0
    ELSE LET k == CHOOSE x \in keys : TRUE
         IN m[k] + SumCounts(m, keys \ {k})

RECURSIVE MapContent(_, _)
RECURSIVE ElementContent(_, _)

ElementContent(h, e) ==
    IF e.tag = "Label" THEN [tag |-> "Label", s |-> e.s, v |-> {}]
    ELSE [tag |-> "Nested", s |-> "", v |-> MapContent(h, h[e.p])]

MapContent(h, m) ==
    {<<c, SumCounts(m, {k \in DOMAIN m : ElementContent(h, k) = c})>> :
        c \in {ElementContent(h, k) : k \in DOMAIN m}}

SameContent(h, x, y) == MapContent(h, x) = MapContent(h, y)

CountsPositive(m) == \A k \in DOMAIN m : m[k] >= 1

---------------------------------------------------------------------------
\* C1: ms1.AddElement(e) does not throw; afterwards IsContains(e) holds, the
\* count of e is one more than before (1 if e was absent), Size() is one
\* more, and the count of every other element is as before.
C1_AddElement ==
    call.op = "AddElement" =>
        /\ ~ret.threw
        /\ IsContains(heap, ms1, call.e)
        /\ Count(heap, ms1, call.e) = Count(heap, call.pre, call.e) + 1
        /\ Size(ms1) = Size(call.pre) + 1
        /\ \A o \in Elements(heap) :
              ~VariantEqual(heap, o, call.e) =>
                  Count(heap, ms1, o) = Count(heap, call.pre, o)

\* AddElement of a Nested element that was present under a different
\* reference, beside another element: its count went from 1 to 2.
C1_Witness ==
    /\ call.op = "AddElement"
    /\ call.e.tag = "Nested"
    /\ call.e \notin DOMAIN call.pre
    /\ Count(heap, call.pre, call.e) = 1
    /\ Cardinality(DOMAIN ms1) = 2

\* C2: ms1.RemoveElement(e) for an e that is not a key throws, and the
\* element-to-count mapping is exactly what it was before the call.
C2_RemoveAbsent ==
    (call.op = "RemoveElement" /\ ~IsContains(heap, call.pre, call.e)) =>
        /\ ret.threw
        /\ ms1 = call.pre

\* RemoveElement of an absent Nested element on a non-empty multiset threw.
C2_Witness ==
    /\ call.op = "RemoveElement"
    /\ call.e.tag = "Nested"
    /\ call.pre # EmptyMap
    /\ ~IsContains(heap, call.pre, call.e)
    /\ ret.threw

\* C3: ms1.RemoveElement(e) for a key e with count c does not throw, leaves e
\* with count c-1 when c > 1, removes the entry when c = 1 (IsContains(e) is
\* then false and Size() one less), and leaves every other count as it was.
C3_RemovePresent ==
    (call.op = "RemoveElement" /\ IsContains(heap, call.pre, call.e)) =>
        LET c == Count(heap, call.pre, call.e)
        IN /\ ~ret.threw
           /\ c > 1 => Count(heap, ms1, call.e) = c - 1
           /\ c = 1 => /\ ~IsContains(heap, ms1, call.e)
                       /\ Size(ms1) = Size(call.pre) - 1
           /\ \A o \in Elements(heap) :
                 ~VariantEqual(heap, o, call.e) =>
                     Count(heap, ms1, o) = Count(heap, call.pre, o)

\* RemoveElement erased a Nested key found through a different reference,
\* and another key stayed.
C3_Witness ==
    /\ call.op = "RemoveElement"
    /\ call.e.tag = "Nested"
    /\ call.e \notin DOMAIN call.pre
    /\ Count(heap, call.pre, call.e) = 1
    /\ ~IsContains(heap, ms1, call.e)
    /\ ms1 # EmptyMap

\* C4: in every reachable state, and in every returned MultiSet, every
\* stored count is at least 1.
C4_CountsPositive ==
    /\ CountsPositive(ms1)
    /\ CountsPositive(ms2)
    /\ CountsPositive(ret.val)
    /\ \A p \in 1..Len(heap) : CountsPositive(heap[p])

\* C5: ms1 == ms2 returns true exactly when the two hold the same
\* (element, count) pairs by content, nested multisets compared by content.
C5_EqualsIffSameContent ==
    call.op = "==" => (ret.b <=> SameContent(heap, ms1, ms2))

\* C6: VariantEqual elements have equal VariantHash, and adding the same two
\* elements in the two orders gives equal MultiSets with equal MultiSetHash.
C6_HashEqualityOrder ==
    /\ \A a, b \in Elements(heap) :
          VariantEqual(heap, a, b) => VariantHash(heap, a) = VariantHash(heap, b)
    /\ \A e1, e2 \in Elements(heap) :
          LET x == AddElement(heap, AddElement(heap, EmptyMap, e1), e2)
              y == AddElement(heap, AddElement(heap, EmptyMap, e2), e1)
          IN /\ MultiSetEq(heap, x, y)
             /\ MultiSetHash(heap, x) = MultiSetHash(heap, y)

\* C7: once ms1.AddElement(Nested(n1)) has returned, every other reference n2
\* to a structurally equal MultiSet is found by IsContains, and AddElement of
\* it adds no key and raises the count of that key and Size() by one.
C7_NestedCollapse ==
    (call.op = "AddElement" /\ call.e.tag = "Nested") =>
        \A q \in 1..Len(heap) :
            (q # call.e.p
             /\ ElementContent(heap, Nested(q)) = ElementContent(heap, call.e)) =>
                LET p2 == AddElement(heap, ms1, Nested(q))
                IN /\ IsContains(heap, ms1, Nested(q))
                   /\ Cardinality(DOMAIN p2) = Cardinality(DOMAIN ms1)
                   /\ Count(heap, p2, call.e) = Count(heap, ms1, call.e) + 1
                   /\ Size(p2) = Size(ms1) + 1

\* C8: the count of every e in ms1 + ms2 is max(count(ms1,e), count(ms2,e));
\* ms1 + ms2 == ms2 + ms1 and ms1 + ms1 == ms1.
C8_Union ==
    call.op = "+" =>
        /\ \A e \in Elements(heap) :
              Count(heap, ret.val, e)
                  = Max(Count(heap, ms1, e), Count(heap, ms2, e))
        /\ MultiSetEq(heap, ret.val, Plus(heap, ms2, ms1))
        /\ MultiSetEq(heap, Plus(heap, ms1, ms1), ms1)

\* C9: the count of every e in ms1 * ms2 is min(count(ms1,e), count(ms2,e));
\* ms1 * ms2 == ms2 * ms1 and ms1 * ms1 == ms1.
C9_Intersection ==
    call.op = "*" =>
        /\ \A e \in Elements(heap) :
              Count(heap, ret.val, e)
                  = Min(Count(heap, ms1, e), Count(heap, ms2, e))
        /\ MultiSetEq(heap, ret.val, Times(heap, ms2, ms1))
        /\ MultiSetEq(heap, Times(heap, ms1, ms1), ms1)

\* C10: ms1 - ms2 holds e with countA - countB when e is in both and
\* countA > countB, does not hold it when e is in both and countA <= countB,
\* holds it with countA when only in ms1 and with countB when only in ms2;
\* ms1 - ms1 is empty and {} - ms2 == ms2.
C10_Difference ==
    call.op = "-" =>
        /\ \A e \in Elements(heap) :
              LET inA == IsContains(heap, ms1, e)
                  inB == IsContains(heap, ms2, e)
                  a == Count(heap, ms1, e)
                  b == Count(heap, ms2, e)
              IN /\ (inA /\ inB /\ a > b) => Count(heap, ret.val, e) = a - b
                 /\ (inA /\ inB /\ a <= b) => ~IsContains(heap, ret.val, e)
                 /\ (inA /\ ~inB) => Count(heap, ret.val, e) = a
                 /\ (~inA /\ inB) => Count(heap, ret.val, e) = b
                 /\ (~inA /\ ~inB) => ~IsContains(heap, ret.val, e)
        /\ IsEmpty(Minus(heap, ms1, ms1))
        /\ MultiSetEq(heap, Minus(heap, EmptyMap, ms2), ms2)

\* ms1 - ms2 where one element is in both with the larger count in ms1 and
\* a Nested element is in ms2 only.
C10_Witness ==
    /\ call.op = "-"
    /\ \E e \in Elements(heap) :
          /\ Count(heap, ms2, e) >= 1
          /\ Count(heap, ms1, e) > Count(heap, ms2, e)
    /\ \E e \in DOMAIN ms2 :
          /\ e.tag = "Nested"
          /\ ~IsContains(heap, ms1, e)
          /\ IsContains(heap, ret.val, e)

\* C11: after ms1 op= ms2 (op one of +, *, -) ms1 holds, and is == to, what
\* the pure ms1 op ms2 returns on the operands as they were, and ms2 is as
\* it was; the pure operators leave ms1 and ms2 as they were; ms1 op= ms1
\* leaves ms1 with what ms1 op ms1 returns on ms1 as it was.
C11_CompoundIsPure ==
    LET agrees(pure) == /\ ms1 = pure
                        /\ MultiSetEq(heap, ms1, pure)
    IN /\ call.op = "+=" => agrees(Plus(heap, call.pre, call.pre2))
       /\ call.op = "*=" => agrees(Times(heap, call.pre, call.pre2))
       /\ call.op = "-=" => agrees(Minus(heap, call.pre, call.pre2))
       /\ call.op = "+=self" => agrees(Plus(heap, call.pre, call.pre))
       /\ call.op = "*=self" => agrees(Times(heap, call.pre, call.pre))
       /\ call.op = "-=self" => agrees(Minus(heap, call.pre, call.pre))
       /\ call.op \in {"+=", "*=", "-="} => ms2 = call.pre2
       /\ call.op \in {"+", "*", "-"} => (ms1 = call.pre /\ ms2 = call.pre2)

\* ms1 += ms2 where an element had the larger count in ms2 and a Nested
\* element was in ms2 only: ms1 changed, ms2 did not.
C11_Witness ==
    /\ call.op = "+="
    /\ ms1 # call.pre
    /\ \E e \in DOMAIN call.pre : Count(heap, ms2, e) > call.pre[e]
    /\ \E e \in DOMAIN ms1 : e.tag = "Nested" /\ ~IsContains(heap, call.pre, e)

\* C12: ms1.BuildBoolean() returns a MultiSet that holds exactly the elements
\* ms1 holds, as many keys as ms1 has, each with count 1, so that its Size()
\* is the number of distinct elements of ms1; ms1 is as it was.
C12_BuildBoolean ==
    call.op = "BuildBoolean" =>
        /\ \A e \in Elements(heap) :
              IsContains(heap, ret.val, e) <=> IsContains(heap, call.pre, e)
        /\ Cardinality(DOMAIN ret.val) = Cardinality(DOMAIN call.pre)
        /\ \A k \in DOMAIN ret.val : ret.val[k] = 1
        /\ Size(ret.val) = Cardinality(DOMAIN call.pre)
        /\ ms1 = call.pre

\* BuildBoolean of a ms1 that held a Label twice and a Nested element.
C12_Witness ==
    /\ call.op = "BuildBoolean"
    /\ \E k \in DOMAIN ms1 : k.tag = "Label" /\ ms1[k] = 2
    /\ \E k \in DOMAIN ms1 : k.tag = "Nested"
    /\ Size(ret.val) = 2

\* C17: in every state the caller can reach through the public operations,
\* shared objects included, no MultiSet is reachable from itself through a
\* chain of Nested elements.
C17_Acyclic == Acyclic(heap)

\* The reader has returned to the caller.
Returned == io.status = "returned"

\* C13: ms2 written with operator<< and the text read back with operator>>
\* into ms1: the read succeeds and ms1 == ms2.
C13_RoundTrip ==
    (Returned /\ io.source = "written") =>
        /\ ~io.is.fail
        /\ MultiSetEq(heap, ms1, ms2)

\* C14: reading the text "{}" succeeds and leaves ms1 empty: Size() 0,
\* IsEmpty() true, no entry in the map.
C14_ReadEmpty ==
    (Returned /\ io.is.text = <<"{", "}">>) =>
        /\ ~io.is.fail
        /\ Size(ms1) = 0
        /\ IsEmpty(ms1)
        /\ DOMAIN ms1 = {}

\* C15: when the reader meets a first character other than '{', or a
\* character other than ',' and '}' where it wants a separator, at the top
\* level or in a nested multiset, operator>> returns, within the passes the
\* length of the text allows, with the stream failed and ms1 as it was.
C15_Malformed ==
    io.malformed =>
        /\ io.iters <= StepBound(io.is.text)
        /\ Returned => (io.is.fail /\ ms1 = call.pre)

\* C16: operator>> is through after a number of passes of its loops that the
\* length of the text bounds, also when the text ends where ',' or '}' was
\* wanted, and it ends with ms1 stored or with the stream failed.
C16_Terminates ==
    /\ io.iters <= StepBound(io.is.text)
    /\ Returned => (io.is.fail \/ io.stored)

====
